---- MODULE Spec2Model ----
(***************************************************************************)
(* Model of homework.cpp: three spin locks (TAS, TTAS, Backoff), the       *)
(* worker functions that add a sub-range of integers to a shared counter,  *)
(* and run_experiment, which partitions [START_NUM, END_NUM] over          *)
(* num_threads workers, joins them and compares the counter with the       *)
(* Gauss sum.                                                              *)
(*                                                                         *)
(* One action is one atomic operation on shared memory (an atomic          *)
(* exchange / load / compare-exchange / store on lock_flag, a plain read   *)
(* or a plain write of the counter) or one step of the runner's loops.     *)
(* 'counter += i' is a read of the counter followed by a write.            *)
(***************************************************************************)
EXTENDS Integers, Sequences, FiniteSets, TLC

\* ---------------------------------------------------------------- bounds
\* START_NUM ranges over 1..MaxStart
MaxStart == 2
\* NUM_OPERATIONS = END_NUM - START_NUM + 1 ranges over 0..MaxTotal
MaxTotal == 3
\* num_threads ranges over -MaxNeg..MaxThreads
MaxThreads == 2
MaxNeg == 1
\* the ghost count of failed iterations saturates at MaxFails (> 10)
MaxFails == 11
\* bounds of the partition specification
PartMaxTotal == 10
PartMaxThreads == 3
\* bounds of the fair specification
FairMaxTotal == 2
FairMaxThreads == 2
\* bounds of the bypass specification; the ghost count of acquisitions by
\* others while a worker is inside lock() saturates at MaxBypass
BypassMaxTotal == 3
BypassMaxThreads == 2
MaxBypass == 2
\* bound of the sweep specification: main runs the first SweepLen entries
\* of thread_counts
SweepLen == 2

\* ------------------------------------------------------ program constants
\* const int MAX_DELAY = 1024;
MAX_DELAY == 1024

LockNames == {"No Lock", "TAS Lock", "TTAS Lock", "Backoff Lock"}

\* vector<int> thread_counts = {2, 4, 8, 16, 32};
thread_counts == <<2, 4, 8, 16, 32>>

\* mutant: the TTAS experiment is run before the TAS experiment
Experiments_swapped == <<"No Lock", "TTAS Lock", "TAS Lock", "Backoff Lock">>

\* the four run_experiment calls in the body of main's loop, in order
Experiments == <<"No Lock", "TAS Lock", "TTAS Lock", "Backoff Lock">>

VARIABLES
    lock_name,        \* which experiment: selects LockType and use_lock
    num_threads,      \* parameter of run_experiment
    START_NUM,        \* workload constants (constexpr in the source)
    END_NUM,
    rpc,              \* position of run_experiment
    shared_counter,   \* long long shared_counter
    lock_flag,        \* lock_instance.lock_flag
    expected_result,  \* local of run_experiment
    current_start,    \* local of run_experiment
    i,                \* loop variable of the spawn loop
    threads,          \* vector<thread>: one record per spawned worker
    joined,           \* number of threads whose join() returned
    report,           \* the line run_experiment printed last
    records,          \* (lock name, thread count) of every line printed
    mpc,              \* position of main; "single" for one call on its own
    sweep,            \* number of run_experiment calls main has made
    observe           \* whether the ghost field bypassed is kept up to date

vars == <<lock_name, num_threads, START_NUM, END_NUM, rpc, shared_counter,
          lock_flag, expected_result, current_start, i, threads, joined,
          report, records, mpc, sweep, observe>>

config == <<lock_name, num_threads, START_NUM, END_NUM, mpc, sweep, observe>>
runner == <<rpc, expected_result, current_start, i, joined, report, records>>

\* constexpr int NUM_OPERATIONS = END_NUM - START_NUM + 1;
NUM_OPERATIONS == END_NUM - START_NUM + 1

\* bool use_lock: false only for the "No Lock" call in main
use_lock == lock_name # "No Lock"

Min(a, b) == IF a < b THEN a ELSE b

\* C++ integer division and remainder (truncation towards zero)
CDiv(a, b) ==
    IF (a >= 0) = (b > 0) THEN (IF a >= 0 THEN a ELSE -a) \div (IF b > 0 THEN b ELSE -b)
    ELSE -((IF a >= 0 THEN a ELSE -a) \div (IF b > 0 THEN b ELSE -b))
CMod(a, b) == a - b * CDiv(a, b)

\* mutant: the sum up to START_NUM is subtracted instead of the sum up to
\* START_NUM - 1
GaussExpected_offByOne(s, e) ==
    LET sum_to_end == CDiv(e * (e + 1), 2)
        sum_to_start == CDiv(s * (s + 1), 2)
    IN  sum_to_end - sum_to_start

\* the Gauss formula of run_experiment
GaussExpected(s, e) ==
    LET sum_to_end == CDiv(e * (e + 1), 2)
        sum_to_start_minus_1 == CDiv((s - 1) * s, 2)
    IN  sum_to_end - sum_to_start_minus_1

\* mutant: the remainder is not distributed
RangeSize_noRemainder(k) == CDiv(NUM_OPERATIONS, num_threads)

\* int range_size = NUM_OPERATIONS / num_threads + (i < NUM_OPERATIONS % num_threads ? 1 : 0);
RangeSize(k) ==
    CDiv(NUM_OPERATIONS, num_threads)
      + (IF k < CMod(NUM_OPERATIONS, num_threads) THEN 1 ELSE 0)

\* mutant: the end of the sub-range is one past its last value
CurrentEnd_offByOne(k) ==
    LET current_end == current_start + RangeSize(k)
    IN  IF current_end > END_NUM THEN END_NUM ELSE current_end

\* int current_end = current_start + range_size - 1; clamped to END_NUM
CurrentEnd(k) ==
    LET current_end == current_start + RangeSize(k) - 1
    IN  IF current_end > END_NUM THEN END_NUM ELSE current_end

\* a freshly constructed std::thread running a worker function.  acq, adds
\* and rel count the returns of lock(), the writes of the counter and the
\* stores of unlock() of the worker; bypassed counts the returns of lock()
\* in other workers since the worker entered the lock() call it is in.
NewThread(s, e) ==
    [start_val |-> s, end_val |-> e, i |-> s, pc |-> "loop",
     reg |-> 0, current_delay |-> 0, fails |-> 0, last |-> "none",
     acq |-> 0, adds |-> 0, rel |-> 0, bypassed |-> 0]

\* ------------------------------------------------------------------ Init
InitWith(maxStart, maxTotal, maxThreads, names, obs) ==
    /\ lock_name \in names
    /\ num_threads \in (0 - MaxNeg)..maxThreads
    /\ START_NUM \in 1..maxStart
    /\ END_NUM \in (START_NUM - 1)..(START_NUM - 1 + maxTotal)
    /\ rpc = "init"
    /\ shared_counter = 0
    /\ lock_flag = FALSE
    /\ expected_result = 0
    /\ current_start = 0
    /\ i = 0
    /\ threads = <<>>
    /\ joined = 0
    /\ report = [printed |-> FALSE]
    /\ records = <<>>
    /\ mpc = "single"
    /\ sweep = 0
    /\ observe = obs

Init == InitWith(MaxStart, MaxTotal, MaxThreads, LockNames, FALSE)

\* ---------------------------------------------------------- run_experiment
\* mutant: the counter is not reset at the start of the experiment
RunInit_noReset ==
    /\ rpc = "init"
    /\ lock_flag' = FALSE
    /\ expected_result' = GaussExpected(START_NUM, END_NUM)
    /\ current_start' = START_NUM
    /\ i' = 0
    /\ threads' = <<>>
    /\ rpc' = "spawn"
    /\ UNCHANGED <<config, shared_counter, joined, report, records>>

\* shared_counter = 0; LockType lock_instance; expected_result = ...
RunInit ==
    /\ rpc = "init"
    /\ shared_counter' = 0
    /\ lock_flag' = FALSE
    /\ expected_result' = GaussExpected(START_NUM, END_NUM)
    /\ current_start' = START_NUM
    /\ i' = 0
    /\ threads' = <<>>
    /\ rpc' = "spawn"
    /\ UNCHANGED <<config, joined, report, records>>

\* one iteration of the spawn loop
Spawn ==
    /\ rpc = "spawn"
    /\ i < num_threads
    /\ threads' = Append(threads, NewThread(current_start, CurrentEnd(i)))
    /\ current_start' = CurrentEnd(i) + 1
    /\ i' = i + 1
    /\ UNCHANGED <<config, rpc, shared_counter, lock_flag, expected_result,
                   joined, report, records>>

\* the spawn loop ends
SpawnDone ==
    /\ rpc = "spawn"
    /\ ~(i < num_threads)
    /\ rpc' = "join"
    /\ joined' = 0
    /\ UNCHANGED <<config, shared_counter, lock_flag, expected_result,
                   current_start, i, threads, report, records>>

\* mutant: join() returns although the worker is still running
Join_noWait ==
    /\ rpc = "join"
    /\ joined < Len(threads)
    /\ joined' = joined + 1
    /\ UNCHANGED <<config, rpc, shared_counter, lock_flag, expected_result,
                   current_start, i, threads, report, records>>

\* for (auto& t : threads) t.join();
Join ==
    /\ rpc = "join"
    /\ joined < Len(threads)
    /\ threads[joined + 1].pc = "done"
    /\ joined' = joined + 1
    /\ UNCHANGED <<config, rpc, shared_counter, lock_flag, expected_result,
                   current_start, i, threads>>
    /\ UNCHANGED <<report, records>>

\* mutant: the difference is printed without abs
Abs_identity(x) == x

\* abs(shared_counter - expected_result)
Abs(x) == IF x < 0 THEN -x ELSE x

\* the verification and the printed line
Report ==
    /\ rpc = "join"
    /\ joined = Len(threads)
    /\ LET is_correct == (shared_counter = expected_result)
       IN  report' = [printed |-> TRUE,
                      name |-> lock_name,
                      nthreads |-> num_threads,
                      final_sum |-> shared_counter,
                      verdict |-> IF is_correct THEN "Correct" ELSE "Incorrect",
                      has_error |-> ~is_correct,
                      error |-> IF is_correct THEN 0
                                ELSE Abs(shared_counter - expected_result)]
    /\ records' = Append(records, <<lock_name, num_threads>>)
    /\ rpc' = "reported"
    /\ UNCHANGED <<config, shared_counter, lock_flag, expected_result,
                   current_start, i, threads, joined>>

Workers == 1..Len(threads)

\* ------------------------------------------------------------- lock entry
\* TAS_Lock::lock() is entered: the next step is the exchange
TAS_enter(th) == [th EXCEPT !.pc = "exchange", !.last = "none", !.bypassed = 0]

\* TTAS_Lock::lock() is entered: the next step is the plain load
TTAS_enter(th) == [th EXCEPT !.pc = "load", !.last = "none", !.bypassed = 0]

\* Backoff_Lock::lock() is entered: int current_delay = 1;
Backoff_enter(th) ==
    [th EXCEPT !.pc = "load", !.last = "none", !.current_delay = 1, !.fails = 0,
               !.bypassed = 0]

\* lock() returns: its locals go out of scope, the caller is in the
\* critical section
LockReturn(th, how) ==
    [th EXCEPT !.pc = "read", !.last = how, !.current_delay = 0, !.fails = 0,
               !.acq = @ + 1, !.bypassed = 0]

\* the thread records after a step of worker t that left them as ths; when
\* the step made lock() return in t (got), every other worker that is
\* inside lock() has been passed once more (recorded when observe is set)
Passed(ths, t, got) ==
    IF ~got \/ ~observe THEN ths
    ELSE [u \in DOMAIN ths |->
            IF u # t /\ ths[u].pc \in {"exchange", "load", "cas", "delay"}
            THEN [ths[u] EXCEPT !.bypassed = Min(@ + 1, MaxBypass)]
            ELSE ths[u]]

\* --------------------------------------------------------------- workers
\* mutant: the loop test is i < end_val
WorkerLoop_strictLess(t) ==
    /\ t \in Workers
    /\ threads[t].pc = "loop"
    /\ LET th == threads[t]
           nx == IF ~(th.i < th.end_val) THEN [th EXCEPT !.pc = "done"]
                 ELSE IF ~use_lock THEN [th EXCEPT !.pc = "read"]
                 ELSE IF lock_name = "TAS Lock" THEN TAS_enter(th)
                 ELSE IF lock_name = "TTAS Lock" THEN TTAS_enter(th)
                 ELSE Backoff_enter(th)
       IN  threads' = [threads EXCEPT ![t] = nx]
    /\ UNCHANGED <<config, runner, shared_counter, lock_flag>>

\* for (int i = start_val; i <= end_val; ++i): the loop test, and the call
\* of lock() (with a lock) or the start of 'counter += i' (without)
WorkerLoop(t) ==
    /\ t \in Workers
    /\ threads[t].pc = "loop"
    /\ LET th == threads[t]
           nx == IF ~(th.i <= th.end_val) THEN [th EXCEPT !.pc = "done"]
                 ELSE IF ~use_lock THEN [th EXCEPT !.pc = "read"]
                 ELSE IF lock_name = "TAS Lock" THEN TAS_enter(th)
                 ELSE IF lock_name = "TTAS Lock" THEN TTAS_enter(th)
                 ELSE Backoff_enter(th)
       IN  threads' = [threads EXCEPT ![t] = nx]
    /\ UNCHANGED <<config, runner, shared_counter, lock_flag>>

\* mutant: the value returned by the exchange is ignored
TAS_lock_noSpin(t) ==
    /\ t \in Workers
    /\ lock_name = "TAS Lock"
    /\ threads[t].pc = "exchange"
    /\ lock_flag' = TRUE
    /\ threads' = Passed([threads EXCEPT ![t] = LockReturn(@, "xchg_ok")], t, TRUE)
    /\ UNCHANGED <<config, runner, shared_counter>>

\* mutant: the spin condition is inverted, while (!lock_flag.exchange(true));
TAS_lock_inverted(t) ==
    /\ t \in Workers
    /\ lock_name = "TAS Lock"
    /\ threads[t].pc = "exchange"
    /\ lock_flag' = TRUE
    /\ threads' = Passed([threads EXCEPT ![t] =
                             IF ~lock_flag THEN [@ EXCEPT !.last = "xchg_fail"]
                             ELSE LockReturn(@, "xchg_ok")], t, lock_flag)
    /\ UNCHANGED <<config, runner, shared_counter>>

\* while (lock_flag.exchange(true));
TAS_lock(t) ==
    /\ t \in Workers
    /\ lock_name = "TAS Lock"
    /\ threads[t].pc = "exchange"
    /\ lock_flag' = TRUE
    /\ threads' = Passed([threads EXCEPT ![t] =
                             IF lock_flag THEN [@ EXCEPT !.last = "xchg_fail"]
                             ELSE LockReturn(@, "xchg_ok")], t, ~lock_flag)
    /\ UNCHANGED <<config, runner, shared_counter>>

\* mutant: the compare-and-swap is attempted whatever the load returned
TTAS_afterLoad_alwaysCas(th, seen) ==
    [th EXCEPT !.pc = "cas", !.last = IF seen THEN "load_true" ELSE "load_false"]

\* where a thread goes after the plain load of TTAS_Lock::lock()
TTAS_afterLoad(th, seen) ==
    IF ~seen THEN [th EXCEPT !.pc = "cas", !.last = "load_false"]
    ELSE [th EXCEPT !.pc = "load", !.last = "load_true"]

\* if (!lock_flag.load())
TTAS_load(t) ==
    /\ t \in Workers
    /\ lock_name = "TTAS Lock"
    /\ threads[t].pc = "load"
    /\ threads' = [threads EXCEPT ![t] = TTAS_afterLoad(@, lock_flag)]
    /\ UNCHANGED <<config, runner, shared_counter, lock_flag>>

\* mutant: lock() returns whatever the compare-and-swap answered
TTAS_afterCas_ignoreResult(th, ok) == LockReturn(th, "cas_ok")

\* where a thread goes after the compare_exchange_weak of TTAS_Lock::lock()
TTAS_afterCas(th, ok) ==
    IF ok THEN LockReturn(th, "cas_ok")
    ELSE [th EXCEPT !.pc = "load", !.last = "cas_fail"]

\* mutant: the flag is set even when the compare-and-swap fails
CasFlag_alwaysSet(flag, ok) == TRUE

\* the value compare_exchange_weak(expected = false, true) leaves in the flag
CasFlag(flag, ok) == IF ok THEN TRUE ELSE flag

\* bool expected = false; if (lock_flag.compare_exchange_weak(expected, true)) return;
\* the weak form may fail although the flag is false
TTAS_cas(t) ==
    /\ t \in Workers
    /\ lock_name = "TTAS Lock"
    /\ threads[t].pc = "cas"
    /\ \E ok \in {TRUE, FALSE} :
          /\ ok => (lock_flag = FALSE)
          /\ lock_flag' = CasFlag(lock_flag, ok)
          /\ threads' = Passed([threads EXCEPT ![t] = TTAS_afterCas(@, ok)], t, ok)
    /\ UNCHANGED <<config, runner, shared_counter>>

\* where a thread goes after the plain load of Backoff_Lock::lock(): when
\* the flag is set the if is skipped and control falls to the delay loop.
\* fails counts the iterations of the while loop that did not acquire.
Backoff_afterLoad(th, seen) ==
    IF ~seen THEN [th EXCEPT !.pc = "cas", !.last = "load_false"]
    ELSE [th EXCEPT !.pc = "delay", !.last = "load_true",
                    !.fails = Min(@ + 1, MaxFails)]

\* if (!lock_flag.load())
Backoff_load(t) ==
    /\ t \in Workers
    /\ lock_name = "Backoff Lock"
    /\ threads[t].pc = "load"
    /\ threads' = [threads EXCEPT ![t] = Backoff_afterLoad(@, lock_flag)]
    /\ UNCHANGED <<config, runner, shared_counter, lock_flag>>

\* mutant: lock() returns whatever the compare-and-swap answered
Backoff_afterCas_ignoreResult(th, ok) == LockReturn(th, "cas_ok")

\* where a thread goes after the compare_exchange_weak of Backoff_Lock::lock()
Backoff_afterCas(th, ok) ==
    IF ok THEN LockReturn(th, "cas_ok")
    ELSE [th EXCEPT !.pc = "delay", !.last = "cas_fail",
                    !.fails = Min(@ + 1, MaxFails)]

\* bool expected = false; if (lock_flag.compare_exchange_weak(expected, true)) return;
Backoff_cas(t) ==
    /\ t \in Workers
    /\ lock_name = "Backoff Lock"
    /\ threads[t].pc = "cas"
    /\ \E ok \in {TRUE, FALSE} :
          /\ ok => (lock_flag = FALSE)
          /\ lock_flag' = CasFlag(lock_flag, ok)
          /\ threads' = Passed([threads EXCEPT ![t] = Backoff_afterCas(@, ok)], t, ok)
    /\ UNCHANGED <<config, runner, shared_counter>>

\* mutant: the delay doubles without a cap
NextDelay_noCap(d) == d * 2

\* current_delay = std::min(current_delay * 2, MAX_DELAY);
NextDelay(d) == Min(d * 2, MAX_DELAY)

\* for (int i = 0; i < current_delay; ++i) {}  and the doubling of the delay
Backoff_delay(t) ==
    /\ t \in Workers
    /\ lock_name = "Backoff Lock"
    /\ threads[t].pc = "delay"
    /\ threads' = [threads EXCEPT ![t] =
                     [@ EXCEPT !.pc = "load", !.last = "delay",
                               !.current_delay = NextDelay(@)]]
    /\ UNCHANGED <<config, runner, shared_counter, lock_flag>>

\* counter += i, first half: the read of the counter
CounterRead(t) ==
    /\ t \in Workers
    /\ threads[t].pc = "read"
    /\ threads' = [threads EXCEPT ![t] =
                     [@ EXCEPT !.pc = "write", !.reg = shared_counter]]
    /\ UNCHANGED <<config, runner, shared_counter, lock_flag>>

\* mutant: the counter is incremented by one instead of by i
AddValue_countMode(th) == th.reg + 1

\* mutant: i is added twice
AddValue_twice(th) == th.reg + th.i + th.i

\* the value 'counter += i' stores: the value read plus i
AddValue(th) == th.reg + th.i

\* counter += i, second half: the write; without a lock the loop's ++i follows
CounterWrite(t) ==
    /\ t \in Workers
    /\ threads[t].pc = "write"
    /\ shared_counter' = AddValue(threads[t])
    /\ threads' = [threads EXCEPT ![t] =
                     IF use_lock
                     THEN [@ EXCEPT !.pc = "unlock", !.reg = 0, !.adds = @ + 1]
                     ELSE [@ EXCEPT !.pc = "loop", !.reg = 0, !.adds = @ + 1,
                                    !.i = @ + 1]]
    /\ UNCHANGED <<config, runner, lock_flag>>

\* mutant: unlock() does not clear the flag
Unlock_noStore(t) ==
    /\ t \in Workers
    /\ use_lock
    /\ threads[t].pc = "unlock"
    /\ threads' = [threads EXCEPT ![t] = [@ EXCEPT !.pc = "loop", !.i = @ + 1]]
    /\ UNCHANGED <<config, runner, shared_counter, lock_flag>>

\* lock_flag.store(false) of TAS_Lock, TTAS_Lock and Backoff_Lock, then ++i
Unlock(t) ==
    /\ t \in Workers
    /\ use_lock
    /\ threads[t].pc = "unlock"
    /\ lock_flag' = FALSE
    /\ threads' = [threads EXCEPT ![t] =
                     [@ EXCEPT !.pc = "loop", !.i = @ + 1, !.rel = @ + 1]]
    /\ UNCHANGED <<config, runner, shared_counter>>

WorkerStep(t) ==
    \/ WorkerLoop(t)
    \/ TAS_lock(t)
    \/ TTAS_load(t)
    \/ TTAS_cas(t)
    \/ Backoff_load(t)
    \/ Backoff_cas(t)
    \/ Backoff_delay(t)
    \/ CounterRead(t)
    \/ CounterWrite(t)
    \/ Unlock(t)

\* ------------------------------------------------------------------ Next
Next ==
    \/ RunInit
    \/ Spawn
    \/ SpawnDone
    \/ Join
    \/ Report
    \/ \E t \in Workers : WorkerLoop(t)
    \/ \E t \in Workers : TAS_lock(t)
    \/ \E t \in Workers : TTAS_load(t)
    \/ \E t \in Workers : TTAS_cas(t)
    \/ \E t \in Workers : Backoff_load(t)
    \/ \E t \in Workers : Backoff_cas(t)
    \/ \E t \in Workers : Backoff_delay(t)
    \/ \E t \in Workers : CounterRead(t)
    \/ \E t \in Workers : CounterWrite(t)
    \/ \E t \in Workers : Unlock(t)

Spec == Init /\ [][Next]_vars

\* The fair specification.  Every thread that can take a step eventually
\* takes one (the runner and each worker are scheduled), and a
\* compare_exchange_weak that is attempted again and again while the flag is
\* clear does not fail spuriously for ever.
InitFair == InitWith(1, FairMaxTotal, FairMaxThreads, LockNames, FALSE)

CasOk(t) ==
    /\ TTAS_cas(t) \/ Backoff_cas(t)
    /\ threads'[t].last = "cas_ok"

RunnerStep == RunInit \/ Spawn \/ SpawnDone \/ Join \/ Report

Fairness ==
    /\ WF_vars(RunnerStep)
    /\ \A t \in 1..FairMaxThreads : WF_vars(WorkerStep(t))
    /\ \A t \in 1..FairMaxThreads : SF_vars(CasOk(t))

FairSpec == InitFair /\ [][Next]_vars /\ Fairness

\* ------------------------------------------------------------------ main
\* the thread count and the lock of the k-th run_experiment call of main
SweepCount(k) == thread_counts[((k - 1) \div Len(Experiments)) + 1]
SweepName(k) == Experiments[((k - 1) % Len(Experiments)) + 1]

\* the number of calls of the sweep
SweepCalls == SweepLen * Len(Experiments)

\* main before its loop.  The workload of the sweep is the two values 1, 2:
\* the smallest one on which two workers race, so that a baseline run may
\* leave a wrong counter behind; the workers beyond the second get an empty
\* sub-range.
InitSweep ==
    /\ lock_name = "No Lock"
    /\ num_threads = 0
    /\ START_NUM = 1
    /\ END_NUM = START_NUM + 1
    /\ rpc = "idle"
    /\ shared_counter = 0
    /\ lock_flag = FALSE
    /\ expected_result = 0
    /\ current_start = 0
    /\ i = 0
    /\ threads = <<>>
    /\ joined = 0
    /\ report = [printed |-> FALSE]
    /\ records = <<>>
    /\ mpc = "loop"
    /\ sweep = 0
    /\ observe = FALSE

\* main calls run_experiment for the next (thread count, lock) of the sweep,
\* once the previous call has returned
MainCall ==
    /\ mpc = "loop"
    /\ rpc \in {"idle", "reported"}
    /\ sweep < SweepCalls
    /\ sweep' = sweep + 1
    /\ lock_name' = SweepName(sweep + 1)
    /\ num_threads' = SweepCount(sweep + 1)
    /\ rpc' = "init"
    /\ UNCHANGED <<START_NUM, END_NUM, mpc, shared_counter, lock_flag,
                   expected_result, current_start, i, threads, joined,
                   report, records, observe>>

\* the loop over thread_counts is over: return 0
MainExit ==
    /\ mpc = "loop"
    /\ rpc \in {"idle", "reported"}
    /\ ~(sweep < SweepCalls)
    /\ mpc' = "done"
    /\ UNCHANGED <<lock_name, num_threads, START_NUM, END_NUM, sweep, rpc,
                   shared_counter, lock_flag, expected_result, current_start,
                   i, threads, joined, report, records, observe>>

NextSweep ==
    \/ MainCall
    \/ MainExit
    \/ RunInit
    \/ Spawn
    \/ SpawnDone
    \/ Join
    \/ Report
    \/ \E t \in Workers : WorkerLoop(t)
    \/ \E t \in Workers : TAS_lock(t)
    \/ \E t \in Workers : TTAS_load(t)
    \/ \E t \in Workers : TTAS_cas(t)
    \/ \E t \in Workers : Backoff_load(t)
    \/ \E t \in Workers : Backoff_cas(t)
    \/ \E t \in Workers : Backoff_delay(t)
    \/ \E t \in Workers : CounterRead(t)
    \/ \E t \in Workers : CounterWrite(t)
    \/ \E t \in Workers : Unlock(t)

SweepSpec == InitSweep /\ [][NextSweep]_vars

\* The bypass specification: one run_experiment call with a lock, with the
\* ghost field bypassed recorded
InitBypass ==
    InitWith(1, BypassMaxTotal, BypassMaxThreads,
             {"TAS Lock", "TTAS Lock", "Backoff Lock"}, TRUE)

BypassSpec == InitBypass /\ [][Next]_vars

\* The partition specification: run_experiment<TAS_Lock> over a wider set
\* of workloads and thread counts
InitPart == InitWith(MaxStart, PartMaxTotal, PartMaxThreads, {"TAS Lock"}, FALSE)

NextPart ==
    \/ RunInit
    \/ Spawn
    \/ SpawnDone
    \/ Join
    \/ Report
    \/ \E t \in Workers : WorkerLoop(t)
    \/ \E t \in Workers : TAS_lock(t)
    \/ \E t \in Workers : CounterRead(t)
    \/ \E t \in Workers : CounterWrite(t)
    \/ \E t \in Workers : Unlock(t)

PartSpec == InitPart /\ [][NextPart]_vars

\* ================================================================ claims

\* worker t is between the return of lock() and the store of unlock()
InCS(t) == use_lock /\ threads[t].pc \in {"read", "write", "unlock"}

\* worker t is inside lock()
InLock(t) == threads[t].pc \in {"exchange", "load", "cas", "delay"}

\* every spawned worker has been joined
AllJoined == rpc \in {"join", "reported"} /\ joined = Len(threads)

RECURSIVE SumRange(_, _)
SumRange(a, b) == IF a > b THEN 0 ELSE a + SumRange(a + 1, b)

\* C1: with any of the three locks, at most one worker is between the
\* return of lock() and its unlock() at any time.
C1_MutualExclusion ==
    \A a, b \in Workers : (a # b) => ~(InCS(a) /\ InCS(b))

\* a worker is in the critical section while another one, which saw the
\* flag clear, is about to compare-and-swap
C1_Witness ==
    \E a, b \in Workers :
        a # b /\ InCS(a) /\ threads[b].pc = "cas" /\ lock_flag

\* C2: with a lock and at least one thread, once every worker is joined the
\* counter is the sum of the integers START_NUM..END_NUM.
C2_FinalSum ==
    (use_lock /\ num_threads >= 1 /\ AllJoined)
        => shared_counter = SumRange(START_NUM, END_NUM)

\* TTAS, two workers with work each, everything joined and reported
C2_Witness ==
    /\ lock_name = "TTAS Lock" /\ num_threads = 2 /\ rpc = "reported"
    /\ START_NUM = 1 /\ END_NUM = 3 /\ shared_counter = 6

Range(th) == th.start_val..th.end_val

\* C3: the sub-ranges handed to the workers start at START_NUM, each next
\* one starts right after the previous end, they are pairwise disjoint,
\* and once all num_threads >= 1 workers are spawned the last one ends at
\* END_NUM and the union is START_NUM..END_NUM.
C3_Partition ==
    /\ Len(threads) >= 1 => threads[1].start_val = START_NUM
    /\ \A k \in 1..(Len(threads) - 1) :
          /\ threads[k + 1].start_val = threads[k].end_val + 1
          /\ threads[k].start_val <= threads[k + 1].start_val
    /\ \A j, k \in Workers : (j # k) => Range(threads[j]) \cap Range(threads[k]) = {}
    /\ (rpc \in {"join", "reported"} /\ num_threads >= 1) =>
          /\ Len(threads) = num_threads
          /\ threads[Len(threads)].end_val = END_NUM
          /\ UNION {Range(threads[k]) : k \in Workers} = START_NUM..END_NUM

\* all workers spawned for a total that num_threads does not divide
C3_Witness ==
    /\ rpc = "join" /\ num_threads = 3 /\ NUM_OPERATIONS = 10
    /\ Len(threads) = 3

\* C4: the k-th sub-range (0-based) has floor(total/N) + 1 values when
\* k < total mod N and floor(total/N) values otherwise.
C4_RangeSizes ==
    \A k \in Workers :
        Cardinality(Range(threads[k])) =
            (NUM_OPERATIONS \div num_threads)
              + (IF (k - 1) < (NUM_OPERATIONS % num_threads) THEN 1 ELSE 0)

\* total = 10, N = 3: the ranges 1..4, 5..7, 8..10
C4_Witness ==
    /\ START_NUM = 1 /\ END_NUM = 10 /\ num_threads = 3 /\ Len(threads) = 3
    /\ Range(threads[1]) = 1..4
    /\ Range(threads[2]) = 5..7
    /\ Range(threads[3]) = 8..10

\* C5: under fair scheduling every run_experiment call (any lock or none,
\* any thread count) reaches its report with every worker finished and
\* joined, and the flag is never set without a worker that holds the lock
\* and will clear it.
C5_Completion ==
    /\ <>(rpc = "reported" /\ AllJoined /\ \A t \in Workers : threads[t].pc = "done")
    /\ [](lock_flag => \E t \in Workers : InCS(t))

\* a Backoff run of two workers with one value each has been reported
C5_Witness ==
    /\ lock_name = "Backoff Lock" /\ num_threads = 2 /\ NUM_OPERATIONS = 2
    /\ rpc = "reported" /\ \A t \in Workers : threads[t].pc = "done"

\* C6: the baseline may lose updates.  A joined "No Lock" run with at
\* least one thread ends with a wrong counter only when two or more
\* workers raced on it; C6_Witness is such a run.
C6_BaselineWrongOnlyByRace ==
    (~use_lock /\ num_threads >= 1 /\ AllJoined
       /\ shared_counter # SumRange(START_NUM, END_NUM))
        => (num_threads >= 2 /\ NUM_OPERATIONS >= 2)

\* a reported baseline run of two or more workers whose counter is wrong
C6_Witness ==
    /\ ~use_lock /\ num_threads >= 2 /\ rpc = "reported"
    /\ \A t \in Workers : threads[t].pc = "done"
    /\ shared_counter # SumRange(START_NUM, END_NUM)
    /\ shared_counter # expected_result
    /\ report.verdict = "Incorrect"

\* C7: run_experiment with num_threads <= 0 never completes an experiment
\* with a reported result (it fails before any thread is spawned).
C7_FailFast ==
    (num_threads <= 0) => rpc # "reported"

\* min(2^k, 1024)
RECURSIVE Pow2(_)
Pow2(k) == IF k = 0 THEN 1 ELSE 2 * Pow2(k - 1)
Pow2Cap(k) == IF k >= 10 THEN 1024 ELSE Pow2(k)

C9_DelayOnlyAfterFailedCas ==
    \A t \in Workers :
        threads[t].pc = "delay" => threads[t].last = "cas_fail"

\* worker t takes a step from pc value p to pc value q
Moves(t, p, q) == threads[t].pc = p /\ threads'[t].pc = q

\* C10: in TTAS_Lock::lock() and Backoff_Lock::lock() a compare-and-swap
\* is attempted only right after a plain load of the same worker that
\* returned false; a failed compare-and-swap leaves the flag unchanged and
\* the worker's next flag operation is the plain load; lock() returns only
\* by a compare-and-swap that changed the flag from false to true.
C10_TTASOrdering ==
    /\ [](\A t \in Workers :
            threads[t].pc = "cas" => threads[t].last = "load_false")
    /\ [][\A t \in Workers :
            /\ (threads[t].pc = "cas" /\ threads'[t].last = "cas_fail") =>
                  /\ lock_flag' = lock_flag
                  /\ threads'[t].pc = IF lock_name = "TTAS Lock"
                                       THEN "load" ELSE "delay"
            /\ (threads[t].pc = "delay" /\ threads'[t].pc # "delay") =>
                  threads'[t].pc = "load"
            /\ (lock_name \in {"TTAS Lock", "Backoff Lock"}
                  /\ threads[t].pc # "read" /\ threads'[t].pc = "read") =>
                  /\ threads[t].pc = "cas"
                  /\ threads'[t].last = "cas_ok"
                  /\ lock_flag = FALSE /\ lock_flag' = TRUE]_vars

\* a TTAS worker whose compare-and-swap failed is back at the plain load
\* while the worker that won the race is in the critical section
C10_Witness ==
    \E a, b \in Workers :
        /\ lock_name = "TTAS Lock" /\ a # b
        /\ threads[a].pc = "load" /\ threads[a].last = "cas_fail"
        /\ InCS(b)

\* C11: when the first worker of an experiment of the sweep is about to be
\* spawned the counter is 0 and the lock flag is false, whatever the
\* previous experiments left behind.
C11_FreshState ==
    (rpc = "spawn" /\ threads = <<>>) => (shared_counter = 0 /\ lock_flag = FALSE)

\* the TAS experiment is about to spawn its first worker after a baseline
\* run that was reported Incorrect with a non-zero counter
C11_Witness ==
    /\ mpc = "loop" /\ sweep >= 2 /\ lock_name = "TAS Lock"
    /\ rpc = "spawn" /\ threads = <<>> /\ i = 0
    /\ report.printed /\ report.name = "No Lock"
    /\ report.verdict = "Incorrect" /\ report.final_sum # 0

\* C12: the comparison of run_experiment happens only when every spawned
\* worker has terminated and been joined; afterwards no worker takes a step
\* and the counter keeps the value that was compared until the next
\* experiment resets it, at which time every worker of the previous
\* experiment has terminated.
C12_VerifyAfterJoin ==
    /\ [](rpc \in {"reported", "init"} =>
            /\ joined = Len(threads)
            /\ \A t \in Workers : threads[t].pc = "done")
    /\ [](rpc = "reported" => report.final_sum = shared_counter)
    /\ [][(rpc \in {"reported", "init"} /\ rpc' # "spawn") =>
            (threads' = threads /\ shared_counter' = shared_counter)]_vars

\* the second experiment is about to reset the counter; the workers of the
\* first one have all terminated
C12_Witness ==
    /\ mpc = "loop" /\ sweep = 2 /\ rpc = "init"
    /\ Len(threads) = 2 /\ \A t \in Workers : threads[t].pc = "done"
    /\ shared_counter # 0

\* the (lock name, thread count) of the k-th line of the report
ExpectedRecord(k) ==
    LET counts == <<2, 4, 8, 16, 32>>
        names == <<"No Lock", "TAS Lock", "TTAS Lock", "Backoff Lock">>
    IN  <<names[((k - 1) % 4) + 1], counts[((k - 1) \div 4) + 1]>>

\* C13: main runs the thread counts in the order 2, 4, 8, 16, 32 and for
\* each one No Lock, TAS Lock, TTAS Lock, Backoff Lock; an experiment is
\* started only when the previous one has printed its line; when main
\* returns there is exactly one line per combination.
C13_SweepOrder ==
    (mpc # "single") =>
        /\ \A k \in 1..Len(records) : records[k] = ExpectedRecord(k)
        /\ rpc \in {"init", "spawn", "join"} =>
              /\ Len(records) = sweep - 1
              /\ <<lock_name, num_threads>> = ExpectedRecord(sweep)
        /\ rpc \in {"idle", "reported"} => Len(records) = sweep
        /\ mpc = "done" =>
              /\ rpc = "reported"
              /\ Len(records) = 4 * SweepLen
              /\ \A j, k \in 1..Len(records) : (j # k) => records[j] # records[k]

\* main has returned after the thread counts 2 and 4
C13_Witness ==
    /\ mpc = "done" /\ Len(records) >= 8
    /\ records[1] = <<"No Lock", 2>> /\ records[4] = <<"Backoff Lock", 2>>
    /\ records[5] = <<"No Lock", 4>> /\ records[8] = <<"Backoff Lock", 4>>

\* C14: the printed line says Correct exactly when the final counter equals
\* the closed-form expected value and Incorrect otherwise; the Error field
\* is printed exactly when the verdict is Incorrect and is the absolute
\* difference of the two.
C14_Verdict ==
    (rpc = "reported") =>
        LET expected == GaussExpected(START_NUM, END_NUM)
            distance == IF shared_counter >= expected
                        THEN shared_counter - expected
                        ELSE expected - shared_counter
        IN  /\ report.printed
            /\ report.final_sum = shared_counter
            /\ report.verdict \in {"Correct", "Incorrect"}
            /\ (report.verdict = "Correct") <=> (shared_counter = expected)
            /\ report.has_error <=> (report.verdict = "Incorrect")
            /\ report.has_error => (report.error = distance /\ report.error > 0)

\* a run of two or more workers reported Incorrect, its Error being the
\* amount by which the counter falls short
C14_Witness ==
    /\ rpc = "reported" /\ num_threads >= 2
    /\ report.verdict = "Incorrect" /\ report.has_error
    /\ report.error = expected_result - shared_counter
    /\ shared_counter > 0

\* C17: the expected value of run_experiment is the sum of the integers
\* START_NUM..END_NUM, for every workload, lock, thread count and counter
\* value.
C17_Oracle ==
    (rpc \in {"spawn", "join", "reported"}) =>
        expected_result = SumRange(START_NUM, END_NUM)

\* the workload 2..4: the expected value is 9 although the counter of the
\* reported run is not
C17_Witness ==
    /\ START_NUM = 2 /\ END_NUM = 4 /\ expected_result = 9
    /\ rpc = "reported" /\ shared_counter # 9 /\ num_threads = 2

\* the number of lock() calls that have returned, over the first k workers
RECURSIVE SumAcq(_)
SumAcq(k) == IF k = 0 THEN 0 ELSE threads[k].acq + SumAcq(k - 1)

\* C15: with a lock, a worker that has completed the values start_val..i-1
\* has done exactly one lock(), one write and one unlock() for each of them
\* (plus the part of the cycle it is in); a worker with an empty sub-range
\* does nothing; the counter is written only by the worker in the critical
\* section, which adds its current i; the flag is cleared only by that
\* worker; i advances by one; and once all workers are joined the number of
\* acquisitions is NUM_OPERATIONS.
C15_WorkerProtocol ==
    /\ [](use_lock =>
            \A t \in Workers :
                LET th == threads[t]
                    k == th.i - th.start_val
                IN  /\ k >= 0
                    /\ th.rel = k
                    /\ th.adds = k + (IF th.pc = "unlock" THEN 1 ELSE 0)
                    /\ th.acq = k + (IF InCS(t) THEN 1 ELSE 0)
                    /\ (th.pc # "loop" /\ th.pc # "done") => th.i <= th.end_val
                    /\ (th.pc = "done" /\ th.start_val <= th.end_val) =>
                          th.i = th.end_val + 1
                    /\ (th.start_val > th.end_val) =>
                          (th.acq = 0 /\ th.adds = 0 /\ th.pc \in {"loop", "done"}))
    /\ []((use_lock /\ num_threads >= 1 /\ AllJoined) =>
            SumAcq(Len(threads)) = NUM_OPERATIONS)
    /\ [][use_lock =>
            /\ (shared_counter' # shared_counter) =>
                  \E t \in Workers :
                      /\ InCS(t) /\ lock_flag
                      /\ Moves(t, "write", "unlock")
                      /\ shared_counter' = shared_counter + threads[t].i
            /\ (lock_flag /\ ~lock_flag') =>
                  \E t \in Workers : InCS(t) /\ Moves(t, "unlock", "loop")
            /\ \A t \in Workers :
                  threads'[t].i \in {threads[t].i, threads[t].i + 1}]_vars

\* a joined Backoff run of two workers over three values: two cycles by
\* the first worker, one by the second
C15_Witness ==
    /\ lock_name = "Backoff Lock" /\ num_threads = 2 /\ NUM_OPERATIONS = 3
    /\ rpc = "reported"
    /\ threads[1].acq = 2 /\ threads[1].rel = 2
    /\ threads[2].acq = 1 /\ threads[2].adds = 1

\* the workers that hold the lock
Holders == {t \in Workers : InCS(t)}

\* C18: TAS, TTAS and Backoff refine the abstract lock with one holder.
\* Every step of a locked experiment either leaves the holder and the flag
\* as they are, or is an acquire (no holder before, the flag goes from
\* false to true, one holder after), or is a release by the holder (the
\* flag goes from true to false, no holder after); the counter changes
\* only in a step of the holder.
C18_Refinement ==
    [][use_lock =>
        /\ \/ (Holders' = Holders /\ lock_flag' = lock_flag)
           \/ /\ Holders = {} /\ ~lock_flag /\ lock_flag'
              /\ \E t \in Workers : Holders' = {t} /\ InLock(t)
           \/ /\ lock_flag /\ ~lock_flag' /\ Holders' = {}
              /\ \E t \in Workers : Holders = {t} /\ Moves(t, "unlock", "loop")
        /\ (shared_counter' # shared_counter) =>
              \E t \in Workers :
                  Holders = {t} /\ Holders' = {t} /\ threads'[t] # threads[t]
      ]_vars

\* a TAS worker whose exchange failed waits while the other worker, which
\* has released once already, holds the lock again
C18_Witness ==
    \E a, b \in Workers :
        /\ lock_name = "TAS Lock" /\ a # b
        /\ InCS(a) /\ threads[a].rel >= 1
        /\ threads[b].pc = "exchange" /\ threads[b].last = "xchg_fail"

\* C19: with a lock the flag is true exactly when one worker is between
\* the return of lock() and the store of unlock(), and no worker is when
\* it is false; an exchange or a compare-and-swap that fails leaves the
\* flag as it was; the flag is false once all workers are joined; without
\* a lock the flag is false throughout.
C19_FlagHolder ==
    /\ [](use_lock => /\ lock_flag <=> (Cardinality(Holders) = 1)
                      /\ ~lock_flag => (Holders = {}))
    /\ [](AllJoined => ~lock_flag)
    /\ [](~use_lock => ~lock_flag)
    /\ [][\A t \in Workers :
            /\ (TAS_lock(t) /\ threads'[t].pc # "read") => lock_flag' = lock_flag
            /\ ((TTAS_cas(t) \/ Backoff_cas(t)) /\ threads'[t].pc # "read") =>
                  lock_flag' = lock_flag]_vars

\* a Backoff worker whose compare-and-swap failed is at the delay while
\* the flag is set and exactly one worker holds the lock
C19_Witness ==
    /\ lock_name = "Backoff Lock" /\ lock_flag /\ Cardinality(Holders) = 1
    /\ \E b \in Workers : threads[b].pc = "delay" /\ threads[b].last = "cas_fail"

RECURSIVE SumSet(_)
SumSet(S) == IF S = {} THEN 0 ELSE LET x == CHOOSE y \in S : TRUE
                                   IN  x + SumSet(S \ {x})

\* C20: the counter is always the sum of a set of distinct values of
\* START_NUM..END_NUM, hence between 0 and the expected value; a joined run
\* whose counter is wrong has a counter below the expected value; with a
\* lock the counter never decreases.
C20_CounterBound ==
    /\ [](/\ \E S \in SUBSET (START_NUM..END_NUM) : shared_counter = SumSet(S)
          /\ shared_counter >= 0
          /\ shared_counter <= SumRange(START_NUM, END_NUM))
    /\ []((AllJoined /\ shared_counter # expected_result) =>
            shared_counter < expected_result)
    /\ [][use_lock => shared_counter' >= shared_counter]_vars

\* a joined baseline run over 2..4 that lost an update: the counter is
\* positive and below the expected value
C20_Witness ==
    /\ ~use_lock /\ START_NUM = 2 /\ END_NUM = 4 /\ AllJoined
    /\ shared_counter > 0 /\ shared_counter < expected_result

TypeOK ==
    /\ lock_name \in LockNames
    /\ rpc \in {"idle", "init", "spawn", "join", "reported"}
    /\ mpc \in {"single", "loop", "done"}
    /\ lock_flag \in BOOLEAN
    /\ shared_counter \in Nat
    /\ \A t \in Workers :
          threads[t].pc \in {"loop", "exchange", "load", "cas", "delay",
                              "read", "write", "unlock", "done"}
====
